---- MODULE Spec2Model ----
(***************************************************************************)
(* Model of the MuseTalk streaming server (src/streaming_server.py):       *)
(* the session table, the avatar table, the per-session audio queue, the   *)
(* avatar initialization threads and the audio worker threads, interleaved *)
(* with the handlers that run on the asyncio event loop.                   *)
(*                                                                         *)
(* Coroutines of the event loop run without preemption between their       *)
(* suspension points, so a handler is one action; cleanup_client is split  *)
(* at its statements because the threads (which share self.clients and     *)
(* self.avatars without any lock) can run between them.                    *)
(***************************************************************************)
EXTENDS Integers, Sequences, FiniteSets, TLC

VARIABLES
    clock,      \* time.time() in clock ticks (one tick = one millisecond reading)
    conn,       \* per connection: position of its register_client coroutine
    clients,    \* self.clients: client_id -> session entry
    avatars,    \* self.avatars: avatar_id -> wrapper
    queues,     \* the queue.Queue objects, one created per register_client call
    inits,      \* the running initialize_avatar threads
    workers,    \* the running process_audio_queue threads
    sent,       \* per connection: the messages written to its websocket
    released,   \* wrappers on which cleanup() has been called
    accepted,   \* per queue: chunks put into it, in put order (history)
    gens,       \* per queue: generate_video_from_audio calls that returned (history)
    wrappers,   \* MuseTalkWrapper objects used directly, outside the server
    api,        \* the HTTP API server (src/api_server.py)
    recorder,   \* the audio recording of the streaming client (src/streaming_client.py)
    bound       \* per queue: the wrapper the session's avatar_id named at each put (history)

vars == <<clock, conn, clients, avatars, queues, inits, workers, sent,
          released, accepted, gens, wrappers, api, recorder, bound>>

(* Bounds of the model. *)
NumConns == 2
MaxInputs == 4
MaxClock == 2
TicksPerSec == 1

NumWrappers == 1
MaxCalls == 3
MaxRequests == 3
MaxStarts == 3

Conns == 1..NumConns

(* The MuseTalkWrapper objects that a direct user of the class constructs. *)
Wrappers == 1..NumWrappers

(* The avatar_id values an HTTP request may carry: the empty string and a
   proper id. *)
ApiIds == {"", "a"}

(* The API server at start: the module-level dict avatars is empty and no
   request is being handled. The other fields record what the server has
   done: reqs the requests being handled (Flask handles each request in a
   thread of its own), started their number so far, live the ids for which
   the last initialize_avatar answered 200 has not been followed by a
   delete_avatar answered 200, resp the last answer given, generated
   and cleaned the wrappers on which generate_video_from_audio and cleanup()
   were called. *)
ApiStart ==
    [avatars |-> <<>>, reqs |-> {}, started |-> 0, live |-> {},
     resp |-> [route |-> "", id |-> "", code |-> 0],
     generated |-> {}, cleaned |-> {}]

(* The streaming client's recording at start: is_recording is False, no
   stream is open (0 stands for None, an open stream is named by the number
   of the start that opened it), no _record_audio thread runs (a thread is
   named by the start that spawned it and is at the test of its while loop
   or at the read of the stream). *)
RecorderStart ==
    [is_recording |-> FALSE, stream |-> 0, starts |-> 0, threads |-> {}]

(* A wrapper object: life is "none" before the constructor is called,
   "live" after it returned, "failed" after it raised and "dead" after the
   destructor ran; avatar_prepared is the attribute; temp_dir says whether
   the directory self.temp_dir exists. The other fields record the calls:
   calls and ret the calls of prepare_avatar_realtime and the last value
   returned, attempts the calls that went into the preparation itself,
   gen_calls the values avatar_prepared had when generate_video_from_audio
   was called, cleanups the calls of cleanup(), raised whether an exception
   came out of cleanup(). *)
Unconstructed ==
    [life |-> "none", avatar_prepared |-> FALSE, temp_dir |-> FALSE,
     calls |-> 0, ret |-> "none", attempts |-> 0,
     gen_calls |-> {}, cleanups |-> 0, raised |-> FALSE]

(* Python's None for an avatar id; avatar ids are tuples <<client_id, second>>. *)
None == <<>>

(* f with key k removed: `del f[k]'. *)
Del(f, k) == [x \in DOMAIN f \ {k} |-> f[x]]

(* f with f[k] = v: `f[k] = v' on a dict. *)
Put(f, k, v) == [x \in DOMAIN f \cup {k} |-> IF x = k THEN v ELSE f[x]]

Event(t, ref, msg) == [type |-> t, ref |-> ref, message |-> msg]

(* client_id = f"client_{int(time.time() * 1000)}" *)
NewClientId == clock

(* avatar_id = f"avatar_{client_id}_{int(time.time())}" *)
NewAvatarId(client_id) == <<client_id, clock \div TicksPerSec>>

(* send_message: written to the websocket stored in the client's entry, and
   only if the client is in the table. *)
send_message(s, client_id, ev) ==
    IF client_id \in DOMAIN clients
    THEN [s EXCEPT ![clients[client_id].websocket] = Append(@, ev)]
    ELSE s

send_error(s, client_id, msg) == send_message(s, client_id, Event("error", <<>>, msg))

(* The threads are started with threading.Thread and run no event loop:
   asyncio.create_task called in them finds no running loop and raises
   RuntimeError instead of scheduling the coroutine. *)
ThreadHasRunningLoop == FALSE

(* A plausible slip: preparation and generation are run on the event loop
   itself instead of in threads, so no handler runs while one is going on. *)
LoopIdle_blocking ==
    /\ \A c \in Conns : conn[c].pc \in {"new", "open", "closed"}
    /\ inits = {} /\ workers = {}

(* No coroutine of the event loop is between two of its statements. *)
LoopIdle == \A c \in Conns : conn[c].pc \in {"new", "open", "closed"}

(* The inputs the server has taken so far: connections accepted and inbound
   messages dispatched. *)
RECURSIVE MsgsUpTo(_)
MsgsUpTo(c) == IF c = 0 THEN 0 ELSE conn[c].nmsgs + MsgsUpTo(c - 1)
TotalInputs == MsgsUpTo(NumConns) + Cardinality({c \in Conns : conn[c].pc # "new"})

Init ==
    /\ clock = 0
    /\ conn = [c \in Conns |-> [pc |-> "new", client_id |-> -1, how |-> "",
                                found |-> FALSE, avatar_id |-> None, nmsgs |-> 0]]
    /\ clients = <<>>
    /\ avatars = <<>>
    /\ queues = [c \in Conns |-> <<>>]
    /\ inits = {}
    /\ workers = {}
    /\ sent = [c \in Conns |-> <<>>]
    /\ released = {}
    /\ accepted = [c \in Conns |-> <<>>]
    /\ gens = [c \in Conns |-> <<>>]
    /\ wrappers = [w \in Wrappers |-> Unconstructed]
    /\ api = ApiStart
    /\ recorder = RecorderStart
    /\ bound = [c \in Conns |-> <<>>]

(* Time passes. *)
Tick ==
    /\ clock < MaxClock
    /\ clock' = clock + 1
    /\ UNCHANGED <<conn, clients, avatars, queues, inits, workers, sent,
                   released, accepted, gens>>
    /\ UNCHANGED <<wrappers, api, recorder, bound>>

(* A plausible slip: the greeting is sent without the session id. *)
register_client_anonymous_greeting(c, sendOk) ==
    /\ LoopIdle
    /\ conn[c].pc = "new"
    /\ TotalInputs < MaxInputs
    /\ \A d \in Conns : d < c => conn[d].pc # "new"
    /\ LET client_id == NewClientId IN
       /\ clients' = Put(clients, client_id,
                         [websocket |-> c, avatar_id |-> None,
                          audio_queue |-> c, processing |-> FALSE])
       /\ IF sendOk
          THEN /\ sent' = [sent EXCEPT ![c] =
                             Append(@, Event("connection_established", <<>>, ""))]
               /\ conn' = [conn EXCEPT ![c].pc = "open", ![c].client_id = client_id]
          ELSE /\ sent' = sent
               /\ conn' = [conn EXCEPT ![c].pc = "ended", ![c].client_id = client_id,
                                       ![c].how = "establish_failed"]
    /\ UNCHANGED <<clock, avatars, queues, inits, workers, released, accepted, gens>>
    /\ UNCHANGED <<wrappers, api, recorder, bound>>

(* register_client up to the read loop: the entry is stored under the id made
   from the clock (replacing an entry already stored under that id), then
   connection_established is sent on this connection's own websocket; if the
   send raises, the handler goes to its finally clause. Connections are
   numbered in the order they are accepted. *)
register_client(c, sendOk) ==
    /\ LoopIdle
    /\ conn[c].pc = "new"
    /\ TotalInputs < MaxInputs
    /\ \A d \in Conns : d < c => conn[d].pc # "new"
    /\ LET client_id == NewClientId IN
       /\ clients' = Put(clients, client_id,
                         [websocket |-> c, avatar_id |-> None,
                          audio_queue |-> c, processing |-> FALSE])
       /\ IF sendOk
          THEN /\ sent' = [sent EXCEPT ![c] =
                             Append(@, Event("connection_established", <<client_id>>, ""))]
               /\ conn' = [conn EXCEPT ![c].pc = "open", ![c].client_id = client_id]
          ELSE /\ sent' = sent
               /\ conn' = [conn EXCEPT ![c].pc = "ended", ![c].client_id = client_id,
                                       ![c].how = "establish_failed"]
    /\ UNCHANGED <<clock, avatars, queues, inits, workers, released, accepted, gens>>
    /\ UNCHANGED <<wrappers, api, recorder, bound>>

(* The values a client may put into the version field of initialize_avatar:
   the two the wrapper knows and one that stands for any other value. A
   message without the field counts as "v15" (`data.get('version', 'v15')'). *)
Versions == {"v15", "v1", "v2"}

(* The video fields an initialize_avatar message may carry: the path of an
   existing file, video data, both, or neither. *)
VideoFields == {"path", "data", "both", "none"}

(* The inbound messages a client may send; arg is the payload that decides the
   handler's path: for initialize_avatar which video fields are given (data,
   when given, is written to a temporary file whose name replaces the path),
   for audio_chunk whether audio_data is present. The handler passes the
   version on to the wrapper's constructor and does nothing else with it. *)
Messages ==
    {[type |-> "initialize_avatar", arg |-> a, version |-> v] :
        a \in VideoFields, v \in Versions}
    \cup {[type |-> "audio_chunk", arg |-> a] : a \in {"data", "none"}}
    \cup {[type |-> t, arg |-> "none"] : t \in {"get_status", "unknown", "invalid_json"}}

(* A thread started by the handler of connection c's n-th message. *)
Thread(c, client_id, avatar_id, pc) ==
    [by |-> c, n |-> conn[c].nmsgs + 1, client_id |-> client_id,
     avatar_id |-> avatar_id, pc |-> pc]

(* A plausible slip: the initialization thread is started before the request
   is validated, so a rejected request leaves a preparation running. *)
handle_initialize_avatar_start_first(c, m) ==
    LET client_id == conn[c].client_id
        avatar_id == NewAvatarId(client_id)
    IN  /\ inits' = inits \cup
             {[thread |-> Thread(c, client_id, avatar_id, "prepare"), t0 |-> clock]}
        /\ sent' = IF m.arg = "none"
                   THEN send_error(sent, client_id,
                          "Either avatar_video_data or avatar_video_path must be provided")
                   ELSE send_message(sent, client_id,
                          Event("avatar_initialization_started", avatar_id, ""))

(* handle_initialize_avatar: after validation the id is made, the
   acknowledgement is sent and the initialization thread is started. *)
handle_initialize_avatar(c, m) ==
    LET client_id == conn[c].client_id
        avatar_id == NewAvatarId(client_id)
    IN  IF m.arg = "none"
        THEN /\ sent' = send_error(sent, client_id,
                          "Either avatar_video_data or avatar_video_path must be provided")
             /\ inits' = inits
        ELSE /\ sent' = send_message(sent, client_id,
                          Event("avatar_initialization_started", avatar_id, ""))
             /\ inits' = inits \cup
                  {[thread |-> Thread(c, client_id, avatar_id, "prepare"), t0 |-> clock]}

(* A plausible slip: a worker is started for every chunk. *)
ShouldStartWorker_Always(entry) == TRUE

(* `if not self.clients[client_id]['processing']': a worker is started only
   when the session's flag is clear. *)
ShouldStartWorker(entry) == ~entry.processing

(* A plausible slip: the acknowledgement is sent before the audio data is
   looked at, so a chunk without data is acknowledged and then dropped. *)
handle_audio_chunk_acks_first(c, m) ==
    LET client_id == conn[c].client_id IN
    IF client_id \notin DOMAIN clients
    THEN /\ sent' = send_error(sent, client_id, "Client not found")
         /\ UNCHANGED <<clients, queues, workers, accepted>>
    ELSE LET entry == clients[client_id]
             avatar_id == entry.avatar_id
             q == entry.audio_queue
             chunk == Len(accepted[q]) + 1
         IN  IF avatar_id = None \/ avatar_id \notin DOMAIN avatars
             THEN /\ sent' = send_error(sent, client_id, "Avatar not initialized")
                  /\ UNCHANGED <<clients, queues, workers, accepted>>
             ELSE /\ sent' = send_message(sent, client_id, Event("audio_received", <<>>, ""))
                  /\ IF m.arg = "none"
                     THEN UNCHANGED <<clients, queues, workers, accepted>>
                     ELSE /\ queues' = [queues EXCEPT ![q] = Append(@, chunk)]
                          /\ accepted' = [accepted EXCEPT ![q] = Append(@, chunk)]
                          /\ IF ShouldStartWorker(entry)
                             THEN /\ clients' = [clients EXCEPT ![client_id].processing = TRUE]
                                  /\ workers' = workers \cup
                                       {[thread |-> Thread(c, client_id, avatar_id, "start"),
                                         queue |-> 0, wrapper |-> <<>>, chunk |-> 0]}
                             ELSE UNCHANGED <<clients, workers>>

(* handle_audio_chunk: validation, put, start of the worker, acknowledgement.
   A chunk is named by its place in the order of arrival at its queue. *)
handle_audio_chunk(c, m) ==
    LET client_id == conn[c].client_id IN
    IF client_id \notin DOMAIN clients
    THEN /\ sent' = send_error(sent, client_id, "Client not found")
         /\ UNCHANGED <<clients, queues, workers, accepted>>
    ELSE LET entry == clients[client_id]
             avatar_id == entry.avatar_id
             q == entry.audio_queue
             chunk == Len(accepted[q]) + 1
         IN  IF avatar_id = None \/ avatar_id \notin DOMAIN avatars
             THEN /\ sent' = send_error(sent, client_id, "Avatar not initialized")
                  /\ UNCHANGED <<clients, queues, workers, accepted>>
             ELSE IF m.arg = "none"
             THEN /\ sent' = send_error(sent, client_id, "No audio data provided")
                  /\ UNCHANGED <<clients, queues, workers, accepted>>
             ELSE /\ queues' = [queues EXCEPT ![q] = Append(@, chunk)]
                  /\ accepted' = [accepted EXCEPT ![q] = Append(@, chunk)]
                  /\ IF ShouldStartWorker(entry)
                     THEN /\ clients' = [clients EXCEPT ![client_id].processing = TRUE]
                          /\ workers' = workers \cup
                               {[thread |-> Thread(c, client_id, avatar_id, "start"),
                                 queue |-> 0, wrapper |-> <<>>, chunk |-> 0]}
                     ELSE UNCHANGED <<clients, workers>>
                  /\ sent' = send_message(sent, client_id, Event("audio_received", <<>>, ""))

(* A plausible slip: queue_size counts every chunk ever put into the queue. *)
handle_get_status_counts_accepted(c) ==
    LET client_id == conn[c].client_id IN
    IF client_id \notin DOMAIN clients
    THEN sent' = send_error(sent, client_id, "Client not found")
    ELSE LET entry == clients[client_id] IN
         sent' = send_message(sent, client_id,
                    [type |-> "status",
                     ref |-> <<client_id>>,
                     message |-> "",
                     avatar_initialized |-> entry.avatar_id # None,
                     avatar_id |-> entry.avatar_id,
                     queue_size |-> Len(accepted[entry.audio_queue]),
                     processing |-> entry.processing])

(* handle_get_status *)
handle_get_status(c) ==
    LET client_id == conn[c].client_id IN
    IF client_id \notin DOMAIN clients
    THEN sent' = send_error(sent, client_id, "Client not found")
    ELSE LET entry == clients[client_id] IN
         sent' = send_message(sent, client_id,
                    [type |-> "status",
                     ref |-> <<client_id>>,
                     message |-> "",
                     avatar_initialized |-> entry.avatar_id # None,
                     avatar_id |-> entry.avatar_id,
                     queue_size |-> Len(queues[entry.audio_queue]),
                     processing |-> entry.processing])

(* A plausible slip: the avatar is prepared by the handler itself, on the
   event loop, instead of in a thread. *)
handle_message_prepares_inline(c, m) ==
    /\ LoopIdle
    /\ conn[c].pc = "open"
    /\ TotalInputs < MaxInputs
    /\ conn' = [conn EXCEPT ![c].nmsgs = @ + 1]
    /\ IF m.type = "initialize_avatar" /\ m.arg = "path"
       THEN LET client_id == conn[c].client_id
                avatar_id == NewAvatarId(client_id)
            IN  /\ sent' = send_message(sent, client_id,
                              Event("avatar_initialization_started", avatar_id, ""))
                /\ avatars' = Put(avatars, avatar_id, <<c, conn[c].nmsgs + 1>>)
                /\ clients' = IF client_id \in DOMAIN clients
                              THEN [clients EXCEPT ![client_id].avatar_id = avatar_id]
                              ELSE clients
                /\ UNCHANGED <<queues, workers, accepted, inits>>
       ELSE /\ sent' = send_error(sent, conn[c].client_id, "Unknown message type")
            /\ UNCHANGED <<clients, queues, workers, accepted, inits, avatars>>
    /\ UNCHANGED <<clock, released, gens>>
    /\ UNCHANGED <<wrappers, api, recorder, bound>>

(* What handle_audio_chunk saw when it put a chunk: the wrapper that the
   session's avatar_id named in self.avatars at that time (the test `not
   avatar_id or avatar_id not in self.avatars' has just passed). *)
BoundAfter(c, m) ==
    LET client_id == conn[c].client_id IN
    IF /\ m.type = "audio_chunk"
       /\ m.arg # "none"
       /\ client_id \in DOMAIN clients
       /\ clients[client_id].avatar_id # None
       /\ clients[client_id].avatar_id \in DOMAIN avatars
    THEN [bound EXCEPT ![clients[client_id].audio_queue] =
             Append(@, avatars[clients[client_id].avatar_id])]
    ELSE bound

(* handle_message: one inbound message of connection c is decoded and
   dispatched by its type. *)
handle_message(c, m) ==
    /\ LoopIdle
    /\ conn[c].pc = "open"
    /\ TotalInputs < MaxInputs
    /\ conn' = [conn EXCEPT ![c].nmsgs = @ + 1]
    /\ CASE m.type = "initialize_avatar" ->
              /\ handle_initialize_avatar(c, m)
              /\ UNCHANGED <<clients, queues, workers, accepted>>
         [] m.type = "audio_chunk" ->
              /\ handle_audio_chunk(c, m)
              /\ UNCHANGED inits
         [] m.type = "get_status" ->
              /\ handle_get_status(c)
              /\ UNCHANGED <<clients, queues, workers, accepted, inits>>
         [] m.type = "invalid_json" ->
              /\ sent' = send_error(sent, conn[c].client_id, "Invalid JSON message")
              /\ UNCHANGED <<clients, queues, workers, accepted, inits>>
         [] OTHER ->
              /\ sent' = send_error(sent, conn[c].client_id, "Unknown message type")
              /\ UNCHANGED <<clients, queues, workers, accepted, inits>>
    /\ UNCHANGED <<clock, avatars, released, gens>>
    /\ bound' = BoundAfter(c, m)
    /\ UNCHANGED <<wrappers, api, recorder>>

(* A plausible slip: teardown only for sessions that have an avatar bound. *)
cleanup_begin_only_bound(cn) ==
    IF cn.client_id \in DOMAIN clients /\ clients[cn.client_id].avatar_id # None
    THEN [cn EXCEPT !.pc = "cleanup_release", !.found = TRUE,
                    !.avatar_id = clients[cn.client_id].avatar_id]
    ELSE [cn EXCEPT !.pc = "closed"]

(* cleanup_client, first statements: `if client_id in self.clients' (found
   records the outcome of this test) and the read of the entry's avatar_id
   into the local variable. *)
cleanup_begin(cn) ==
    IF cn.client_id \in DOMAIN clients
    THEN [cn EXCEPT !.pc = "cleanup_release", !.found = TRUE,
                    !.avatar_id = clients[cn.client_id].avatar_id]
    ELSE [cn EXCEPT !.pc = "closed"]

(* The read loop of register_client ends: the peer closed gracefully (the
   `async for' is exhausted), the connection broke (ConnectionClosed) or
   another exception came out of the loop. Neither except clause changes
   anything, and each way goes on to the finally clause, which enters
   cleanup_client. *)
Disconnect(c, how) ==
    /\ LoopIdle
    /\ conn[c].pc = "open"
    /\ how \in {"graceful", "ConnectionClosed", "exception"}
    /\ conn' = [conn EXCEPT ![c] = cleanup_begin([conn[c] EXCEPT !.how = "read_loop_ended"])]
    /\ UNCHANGED <<clock, clients, avatars, queues, inits, workers, sent,
                   released, accepted, gens>>
    /\ UNCHANGED <<wrappers, api, recorder, bound>>

(* The finally clause after connection_established could not be sent. *)
cleanup_after_failed_send(c) ==
    /\ conn[c].pc = "ended"
    /\ conn' = [conn EXCEPT ![c] = cleanup_begin(conn[c])]
    /\ UNCHANGED <<clock, clients, avatars, queues, inits, workers, sent,
                   released, accepted, gens>>
    /\ UNCHANGED <<wrappers, api, recorder, bound>>

(* A plausible slip: the avatar is looked up without the guard, so that a
   session without an avatar in the table raises KeyError into the except
   clause of cleanup_client, which logs it and returns. *)
cleanup_release_unguarded(c) ==
    /\ conn[c].pc = "cleanup_release"
    /\ LET avatar_id == conn[c].avatar_id IN
       IF avatar_id \in DOMAIN avatars
       THEN /\ released' = released \cup {avatars[avatar_id]}
            /\ avatars' = Del(avatars, avatar_id)
            /\ conn' = [conn EXCEPT ![c].pc = "cleanup_delete"]
       ELSE /\ UNCHANGED <<released, avatars>>
            /\ conn' = [conn EXCEPT ![c].pc = "closed", ![c].how = "error_in_cleanup",
                                    ![c].avatar_id = None]
    /\ UNCHANGED <<clock, clients, queues, inits, workers, sent, accepted, gens>>
    /\ UNCHANGED <<wrappers, api, recorder, bound>>

(* cleanup_client: `if avatar_id and avatar_id in self.avatars:' cleanup()
   and `del self.avatars[avatar_id]'. *)
cleanup_release(c) ==
    /\ conn[c].pc = "cleanup_release"
    /\ LET avatar_id == conn[c].avatar_id IN
       IF avatar_id # None /\ avatar_id \in DOMAIN avatars
       THEN /\ released' = released \cup {avatars[avatar_id]}
            /\ avatars' = Del(avatars, avatar_id)
       ELSE UNCHANGED <<released, avatars>>
    /\ conn' = [conn EXCEPT ![c].pc = "cleanup_delete"]
    /\ UNCHANGED <<clock, clients, queues, inits, workers, sent, accepted, gens>>
    /\ UNCHANGED <<wrappers, api, recorder, bound>>

(* A plausible slip: removing the session also cancels its workers. *)
cleanup_delete_cancels_workers(c) ==
    /\ conn[c].pc = "cleanup_delete"
    /\ clients' = Del(clients, conn[c].client_id)
    /\ workers' = {w \in workers : w.thread.client_id # conn[c].client_id}
    /\ conn' = [conn EXCEPT ![c].pc = "closed", ![c].avatar_id = None,
                            ![c].how = IF conn[c].client_id \in DOMAIN clients
                                       THEN @ ELSE "error_in_cleanup"]
    /\ UNCHANGED <<clock, avatars, queues, inits, sent, released, accepted, gens>>
    /\ UNCHANGED <<wrappers, api, recorder, bound>>

(* cleanup_client: `del self.clients[client_id]'; a KeyError would go to the
   except clause, which logs it. The local avatar_id is dead afterwards. *)
cleanup_delete(c) ==
    /\ conn[c].pc = "cleanup_delete"
    /\ clients' = Del(clients, conn[c].client_id)
    /\ conn' = [conn EXCEPT ![c].pc = "closed", ![c].avatar_id = None,
                            ![c].how = IF conn[c].client_id \in DOMAIN clients
                                       THEN @ ELSE "error_in_cleanup"]
    /\ UNCHANGED <<clock, avatars, queues, inits, workers, sent, released,
                   accepted, gens>>
    /\ UNCHANGED <<wrappers, api, recorder, bound>>

(***************************************************************************)
(* The initialization thread (the closure initialize_avatar).              *)
(***************************************************************************)

(* The wrapper a thread constructs is named by the thread. *)
WrapperOf(t) == <<t.thread.by, t.thread.n>>

(* MuseTalkWrapper(...) and prepare_avatar_realtime() return. outcome is
   "ok" (prepared), "fail" (prepare returned False) or "raise" (the
   constructor raised). A successful preparation has run the preparation
   subprocess, which takes time: the clock has moved on since the request.
   On success `self.avatars[avatar_id] = wrapper' follows. After a failure
   the thread reports with asyncio.create_task, which raises in this thread,
   and the thread ends. *)
prepare_done(t, outcome) ==
    /\ t \in inits
    /\ t.thread.pc = "prepare"
    /\ IF outcome = "ok"
       THEN /\ clock > t.t0
            /\ inits' = (inits \ {t}) \cup {[t EXCEPT !.thread.pc = "bind", !.t0 = 0]}
            /\ avatars' = Put(avatars, t.thread.avatar_id, WrapperOf(t))
            /\ sent' = sent
       ELSE /\ inits' = inits \ {t}
            /\ avatars' = avatars
            /\ sent' = IF ThreadHasRunningLoop
                       THEN send_error(sent, t.thread.client_id, "Failed to initialize avatar")
                       ELSE sent
    /\ UNCHANGED <<clock, conn, clients, queues, workers, released, accepted, gens>>
    /\ UNCHANGED <<wrappers, api, recorder, bound>>

(* `self.clients[client_id]['avatar_id'] = avatar_id' (KeyError when the
   client is gone), then the report with asyncio.create_task; the thread
   ends. *)
bind_avatar(t) ==
    /\ t \in inits
    /\ t.thread.pc = "bind"
    /\ LET client_id == t.thread.client_id IN
       IF client_id \in DOMAIN clients
       THEN /\ clients' = [clients EXCEPT ![client_id].avatar_id = t.thread.avatar_id]
            /\ sent' = IF ThreadHasRunningLoop
                       THEN send_message(sent, client_id,
                                Event("avatar_initialized", t.thread.avatar_id, ""))
                       ELSE sent
       ELSE UNCHANGED <<clients, sent>>
    /\ inits' = inits \ {t}
    /\ UNCHANGED <<clock, conn, avatars, queues, workers, released, accepted, gens>>
    /\ UNCHANGED <<wrappers, api, recorder, bound>>

(***************************************************************************)
(* The worker thread (process_audio_queue).                                *)
(***************************************************************************)

(* One step of the worker before its blocking call. At its start: `wrapper =
   self.avatars[avatar_id]' and `audio_queue =
   self.clients[client_id]['audio_queue']', where a KeyError goes to the
   outer except and the finally clause; from then on the thread holds the
   two objects themselves. At the head of the loop: `while not
   audio_queue.empty():' and `audio_queue.get(timeout=1)': the loop is left
   when the queue is empty, else the head is taken and
   generate_video_from_audio is entered. The event loop and the other
   threads can run between the lookups and the test of the queue. *)
worker_take(w) ==
    /\ w \in workers
    /\ w.thread.pc \in {"start", "check"}
    /\ LET th == w.thread IN
       IF th.pc = "start"
       THEN /\ queues' = queues
            /\ IF th.avatar_id \in DOMAIN avatars /\ th.client_id \in DOMAIN clients
               THEN workers' = (workers \ {w}) \cup
                       {[w EXCEPT !.thread.pc = "check",
                                  !.queue = clients[th.client_id].audio_queue,
                                  !.wrapper = avatars[th.avatar_id]]}
               ELSE workers' = (workers \ {w}) \cup {[w EXCEPT !.thread.pc = "finally"]}
       ELSE IF queues[w.queue] = <<>>
            THEN /\ workers' = (workers \ {w}) \cup
                       {[w EXCEPT !.thread.pc = "finally", !.chunk = 0]}
                 /\ queues' = queues
            ELSE /\ workers' = (workers \ {w}) \cup
                       {[w EXCEPT !.thread.pc = "generate",
                                  !.chunk = Head(queues[w.queue])]}
                 /\ queues' = [queues EXCEPT ![w.queue] = Tail(@)]
    /\ UNCHANGED <<clock, conn, clients, avatars, inits, sent, released, accepted, gens>>
    /\ UNCHANGED <<wrappers, api, recorder, bound>>

(* The event the worker reports for a chunk. *)
ChunkEvent(chunk, res) ==
    IF res = "ok" THEN Event("video_chunk", <<chunk>>, "")
    ELSE IF res = "fail" THEN Event("error", <<chunk>>, "Failed to generate video")
    ELSE Event("error", <<chunk>>, "Audio processing error")

(* The chunk's generation ends and its result is reported. res is "ok" (a
   video was produced), "fail" (no video) or "raise" (an exception in the
   loop body). The report is made with asyncio.create_task: where that
   raises, the exception handler of the loop body reports with
   asyncio.create_task again, which raises out of the loop into the outer
   except and the finally clause. *)
generate_done(w, res) ==
    /\ w \in workers
    /\ w.thread.pc = "generate"
    /\ gens' = [gens EXCEPT ![w.queue] = Append(@, [chunk |-> w.chunk, res |-> res])]
    /\ IF ThreadHasRunningLoop
       THEN /\ sent' = send_message(sent, w.thread.client_id, ChunkEvent(w.chunk, res))
            /\ workers' = (workers \ {w}) \cup {[w EXCEPT !.thread.pc = "check", !.chunk = 0]}
       ELSE /\ sent' = sent
            /\ workers' = (workers \ {w}) \cup {[w EXCEPT !.thread.pc = "finally"]}
    /\ UNCHANGED <<clock, conn, clients, avatars, queues, inits, released, accepted>>
    /\ UNCHANGED <<wrappers, api, recorder, bound>>

(* A plausible slip: the worker polls its queue for ever: after the finally
   clause it starts over instead of ending. *)
worker_finally_polls(w) ==
    /\ w \in workers
    /\ w.thread.pc = "finally"
    /\ LET client_id == w.thread.client_id IN
       clients' = IF client_id \in DOMAIN clients
                  THEN [clients EXCEPT ![client_id].processing = FALSE]
                  ELSE clients
    /\ workers' = (workers \ {w}) \cup
                     {[w EXCEPT !.thread.pc = "start", !.queue = 0,
                                !.wrapper = <<>>, !.chunk = 0]}
    /\ UNCHANGED <<clock, conn, avatars, queues, inits, sent, released, accepted, gens>>
    /\ UNCHANGED <<wrappers, api, recorder, bound>>

(* A plausible slip: the thread ends without the finally clause. *)
worker_finally_keeps_flag(w) ==
    /\ w \in workers
    /\ w.thread.pc = "finally"
    /\ workers' = workers \ {w}
    /\ UNCHANGED <<clock, conn, clients, avatars, queues, inits, sent, released,
                   accepted, gens>>
    /\ UNCHANGED <<wrappers, api, recorder, bound>>

(* finally: `if client_id in self.clients: ...['processing'] = False'; the
   thread ends. *)
worker_finally(w) ==
    /\ w \in workers
    /\ w.thread.pc = "finally"
    /\ LET client_id == w.thread.client_id IN
       clients' = IF client_id \in DOMAIN clients
                  THEN [clients EXCEPT ![client_id].processing = FALSE]
                  ELSE clients
    /\ workers' = workers \ {w}
    /\ UNCHANGED <<clock, conn, avatars, queues, inits, sent, released, accepted, gens>>
    /\ UNCHANGED <<wrappers, api, recorder, bound>>

Next ==
    \/ Tick
    \/ \E c \in Conns, sendOk \in BOOLEAN : register_client(c, sendOk)
    \/ \E c \in Conns, m \in Messages : handle_message(c, m)
    \/ \E c \in Conns, how \in {"graceful", "ConnectionClosed", "exception"} : Disconnect(c, how)
    \/ \E c \in Conns : cleanup_after_failed_send(c)
    \/ \E c \in Conns : cleanup_release(c)
    \/ \E c \in Conns : cleanup_delete(c)
    \/ \E t \in inits, outcome \in {"ok", "fail", "raise"} : prepare_done(t, outcome)
    \/ \E t \in inits : bind_avatar(t)
    \/ \E w \in workers : worker_take(w)
    \/ \E w \in workers, res \in {"ok", "fail", "raise"} : generate_done(w, res)
    \/ \E w \in workers : worker_finally(w)

Spec == Init /\ [][Next]_vars

(***************************************************************************)
(* The class MuseTalkWrapper (src/musetalk_wrapper.py) used directly, as   *)
(* test_wrapper_basic and the module's own __main__ block use it: the      *)
(* caller constructs an object and calls its methods in any order.         *)
(***************************************************************************)

serverVars == <<clock, conn, clients, avatars, queues, inits, workers, sent,
                released, accepted, gens, bound>>

(* __init__: the attributes are set and the temporary directory is made
   before the two paths are validated; FileNotFoundError leaves an object
   that only the destructor will see again. *)
construct(w, ok) ==
    /\ wrappers[w].life = "none"
    /\ wrappers' = [wrappers EXCEPT ![w].life = IF ok THEN "live" ELSE "failed",
                                    ![w].temp_dir = TRUE]
    /\ UNCHANGED <<serverVars, api, recorder>>

(* A plausible slip: the test of avatar_prepared is missing, every call runs
   the preparation. *)
prepare_avatar_realtime_unguarded(w, outcome) ==
    /\ wrappers[w].life = "live"
    /\ wrappers[w].calls < MaxCalls
    /\ LET ok == wrappers[w].temp_dir /\ outcome = "ok" IN
       wrappers' = [wrappers EXCEPT ![w].calls = @ + 1,
                                    ![w].attempts = @ + 1,
                                    ![w].avatar_prepared = ok,
                                    ![w].ret = IF ok THEN "True" ELSE "False"]
    /\ UNCHANGED <<serverVars, api, recorder>>

(* prepare_avatar_realtime: `if self.avatar_prepared: return True'; else the
   preparation is gone into: the configuration is written into temp_dir
   (which raises, caught, when the directory is gone) and the preparation
   subprocess is run; outcome "ok" is return code 0, "fail" anything else
   (another return code, the timeout, an exception). *)
prepare_avatar_realtime(w, outcome) ==
    /\ wrappers[w].life = "live"
    /\ wrappers[w].calls < MaxCalls
    /\ IF wrappers[w].avatar_prepared
       THEN wrappers' = [wrappers EXCEPT ![w].calls = @ + 1, ![w].ret = "True"]
       ELSE LET ok == wrappers[w].temp_dir /\ outcome = "ok" IN
            wrappers' = [wrappers EXCEPT ![w].calls = @ + 1,
                                         ![w].attempts = @ + 1,
                                         ![w].avatar_prepared = ok,
                                         ![w].ret = IF ok THEN "True" ELSE "False"]
    /\ UNCHANGED <<serverVars, api, recorder>>

(* generate_video_from_audio: the method tests the audio path and nothing
   else before it runs the inference; it reads neither avatar_prepared nor
   any other mark of a preparation, and it changes no attribute. *)
generate_video_from_audio(w) ==
    /\ wrappers[w].life = "live"
    /\ wrappers' = [wrappers EXCEPT ![w].gen_calls = @ \cup {wrappers[w].avatar_prepared}]
    /\ UNCHANGED <<serverVars, api, recorder>>

(* A plausible slip: rmtree is called without the test of the directory and
   outside try/except, so that a second call raises FileNotFoundError. *)
Cleaned_unguarded(x) ==
    [x EXCEPT !.temp_dir = FALSE, !.raised = @ \/ ~x.temp_dir]

(* The body of cleanup(): `if os.path.exists(self.temp_dir):
   shutil.rmtree(self.temp_dir)', inside try/except Exception. The
   directory is the object's own (mkdtemp) and its removal succeeds. *)
Cleaned(x) == [x EXCEPT !.temp_dir = FALSE]

(* cleanup() called by the user of the object. *)
cleanup(w) ==
    /\ wrappers[w].life = "live"
    /\ wrappers[w].cleanups < MaxCalls
    /\ wrappers' = [wrappers EXCEPT ![w] = [Cleaned(@) EXCEPT !.cleanups = @ + 1]]
    /\ UNCHANGED <<serverVars, api, recorder>>

(* __del__: the destructor calls cleanup() once more; it also runs for an
   object whose constructor raised. *)
destructor(w) ==
    /\ wrappers[w].life \in {"live", "failed"}
    /\ wrappers' = [wrappers EXCEPT ![w] = [Cleaned(@) EXCEPT !.life = "dead"]]
    /\ UNCHANGED <<serverVars, api, recorder>>

WrapperNext ==
    \/ \E w \in Wrappers, ok \in BOOLEAN : construct(w, ok)
    \/ \E w \in Wrappers, outcome \in {"ok", "fail"} : prepare_avatar_realtime(w, outcome)
    \/ \E w \in Wrappers : generate_video_from_audio(w)
    \/ \E w \in Wrappers : cleanup(w)
    \/ \E w \in Wrappers : destructor(w)

WrapperSpec == Init /\ [][WrapperNext]_vars


(***************************************************************************)
(* The HTTP API server (src/api_server.py). The app runs with              *)
(* threaded=True, so each request is handled in a thread of its own: a     *)
(* handler that calls into the wrapper is split at that call, and other    *)
(* requests can be handled in between. A request without an avatar_id      *)
(* field is not modelled apart from one with the empty id: generate_video  *)
(* and delete_avatar reject both on `if not avatar_id'.                    *)
(***************************************************************************)

otherVars == <<serverVars, wrappers, recorder>>

Request(n, route, id) == [n |-> n, route |-> route, id |-> id]

Response(route, id, code) == [route |-> route, id |-> id, code |-> code]

(* POST /initialize_avatar up to the call of prepare_avatar_realtime():
   without a video file, or with a version other than v1 and v15, the answer
   is 400; any avatar_id given in the form is taken as it is. *)
initialize_avatar(id, valid) ==
    /\ api.started < MaxRequests
    /\ IF ~valid
       THEN api' = [api EXCEPT !.started = @ + 1,
                               !.resp = Response("initialize_avatar", id, 400)]
       ELSE api' = [api EXCEPT !.started = @ + 1,
                               !.reqs = @ \cup {Request(api.started + 1, "initialize_avatar", id)}]
    /\ UNCHANGED otherVars

(* prepare_avatar_realtime() has returned True, returned False or raised:
   on True the new wrapper is stored under avatar_id, whatever was stored
   there before, and the answer is 200; else it is 500. *)
initialize_avatar_done(r, outcome) ==
    /\ r \in api.reqs
    /\ r.route = "initialize_avatar"
    /\ IF outcome = "ok"
       THEN api' = [api EXCEPT !.reqs = @ \ {r},
                               !.avatars = Put(@, r.id, r.n),
                               !.live = @ \cup {r.id},
                               !.resp = Response(r.route, r.id, 200)]
       ELSE api' = [api EXCEPT !.reqs = @ \ {r},
                               !.resp = Response(r.route, r.id, 500)]
    /\ UNCHANGED otherVars

(* POST /generate_video up to the saving of the audio file: 400 for no
   avatar_id, 404 for one that is not in avatars, 400 for no audio file. *)
generate_video(id, audio) ==
    /\ api.started < MaxRequests
    /\ IF id = ""
       THEN api' = [api EXCEPT !.started = @ + 1,
                               !.resp = Response("generate_video", id, 400)]
       ELSE IF id \notin DOMAIN api.avatars
       THEN api' = [api EXCEPT !.started = @ + 1,
                               !.resp = Response("generate_video", id, 404)]
       ELSE IF ~audio
       THEN api' = [api EXCEPT !.started = @ + 1,
                               !.resp = Response("generate_video", id, 400)]
       ELSE api' = [api EXCEPT !.started = @ + 1,
                               !.reqs = @ \cup {Request(api.started + 1, "generate_video", id)}]
    /\ UNCHANGED otherVars

(* The rest of /generate_video: avatars[avatar_id] is looked up (KeyError,
   hence 500, when the entry has gone meanwhile) and the wrapper generates;
   200 with the video, 500 when there is none or the call raised. *)
generate_video_done(r, res) ==
    /\ r \in api.reqs
    /\ r.route = "generate_video"
    /\ IF r.id \notin DOMAIN api.avatars
       THEN api' = [api EXCEPT !.reqs = @ \ {r},
                               !.resp = Response(r.route, r.id, 500)]
       ELSE api' = [api EXCEPT !.reqs = @ \ {r},
                               !.generated = @ \cup {api.avatars[r.id]},
                               !.resp = Response(r.route, r.id,
                                                 IF res = "ok" THEN 200 ELSE 500)]
    /\ UNCHANGED otherVars

(* DELETE /delete_avatar up to the call of wrapper.cleanup(): 400 for no
   avatar_id, 404 for one that is not in avatars. *)
delete_avatar(id) ==
    /\ api.started < MaxRequests
    /\ IF id = ""
       THEN api' = [api EXCEPT !.started = @ + 1,
                               !.resp = Response("delete_avatar", id, 400)]
       ELSE IF id \notin DOMAIN api.avatars
       THEN api' = [api EXCEPT !.started = @ + 1,
                               !.resp = Response("delete_avatar", id, 404)]
       ELSE api' = [api EXCEPT !.started = @ + 1,
                               !.cleaned = @ \cup {api.avatars[id]},
                               !.reqs = @ \cup {Request(api.started + 1, "delete_avatar", id)}]
    /\ UNCHANGED otherVars

(* The rest of /delete_avatar: `del avatars[avatar_id]' (KeyError, hence
   500, when another request has removed the entry meanwhile), then 200. *)
delete_avatar_done(r) ==
    /\ r \in api.reqs
    /\ r.route = "delete_avatar"
    /\ IF r.id \notin DOMAIN api.avatars
       THEN api' = [api EXCEPT !.reqs = @ \ {r},
                               !.resp = Response(r.route, r.id, 500)]
       ELSE api' = [api EXCEPT !.reqs = @ \ {r},
                               !.avatars = Del(@, r.id),
                               !.live = @ \ {r.id},
                               !.resp = Response(r.route, r.id, 200)]
    /\ UNCHANGED otherVars

ApiNext ==
    \/ \E id \in ApiIds, valid \in BOOLEAN : initialize_avatar(id, valid)
    \/ \E r \in api.reqs, outcome \in {"ok", "fail", "raise"} : initialize_avatar_done(r, outcome)
    \/ \E id \in ApiIds, audio \in BOOLEAN : generate_video(id, audio)
    \/ \E r \in api.reqs, res \in {"ok", "fail", "raise"} : generate_video_done(r, res)
    \/ \E id \in ApiIds : delete_avatar(id)
    \/ \E r \in api.reqs : delete_avatar_done(r)

ApiSpec == Init /\ [][ApiNext]_vars

(***************************************************************************)
(* The audio recording of the streaming client (src/streaming_client.py):  *)
(* start_audio_recording and stop_audio_recording are called by the        *)
(* client's own code, one after the other; each successful start spawns a  *)
(* _record_audio thread, which runs beside them.                           *)
(***************************************************************************)

nonRecorderVars == <<serverVars, wrappers, api>>

(* start_audio_recording: nothing when is_recording is set; else the stream
   is opened (which may raise, leaving everything as it was), is_recording
   is set and a _record_audio thread is started. *)
start_audio_recording(ok) ==
    /\ recorder.starts < MaxStarts
    /\ IF recorder.is_recording \/ ~ok
       THEN recorder' = [recorder EXCEPT !.starts = @ + 1]
       ELSE recorder' = [recorder EXCEPT
                            !.starts = @ + 1,
                            !.stream = recorder.starts + 1,
                            !.is_recording = TRUE,
                            !.threads = @ \cup {[n |-> recorder.starts + 1,
                                                 pc |-> "test", last |-> 0]}]
    /\ UNCHANGED nonRecorderVars

(* stop_audio_recording: is_recording is cleared, the stream, if there is
   one, is stopped and closed and self.stream set to None. No thread is
   joined. *)
stop_audio_recording ==
    /\ recorder' = [recorder EXCEPT !.is_recording = FALSE, !.stream = 0]
    /\ UNCHANGED nonRecorderVars

(* _record_audio at a test of self.is_recording (`while self.is_recording:'
   or `if not self.is_recording: break', after which the while test
   follows): the thread goes on to read, or ends. *)
record_audio_test(t) ==
    /\ t \in recorder.threads
    /\ t.pc = "test"
    /\ recorder' = [recorder EXCEPT !.threads =
                       IF recorder.is_recording
                       THEN (@ \ {t}) \cup {[t EXCEPT !.pc = "read"]}
                       ELSE @ \ {t}]
    /\ UNCHANGED nonRecorderVars

(* _record_audio at `self.stream.read(...)': self.stream is read at this
   moment. With no stream (None, or one being closed) the call raises and
   the except clause ends the thread; else the thread has a frame of
   whatever stream is open now and comes to the next test. *)
record_audio_read(t) ==
    /\ t \in recorder.threads
    /\ t.pc = "read"
    /\ recorder' = [recorder EXCEPT !.threads =
                       IF recorder.stream = 0
                       THEN @ \ {t}
                       ELSE (@ \ {t}) \cup {[t EXCEPT !.pc = "test",
                                                      !.last = recorder.stream]}]
    /\ UNCHANGED nonRecorderVars

RecorderNext ==
    \/ \E ok \in BOOLEAN : start_audio_recording(ok)
    \/ stop_audio_recording
    \/ \E t \in recorder.threads : record_audio_test(t)
    \/ \E t \in recorder.threads : record_audio_read(t)

RecorderSpec == Init /\ [][RecorderNext]_vars


(***************************************************************************)
(* Properties.                                                             *)
(***************************************************************************)

Last(s) == s[Len(s)]

(* The chunk events among the messages written to a connection. *)
ChunkEvents(s) ==
    SelectSeq(s, LAMBDA ev : ev.type = "video_chunk" \/ (ev.type = "error" /\ ev.ref # <<>>))

(* The worker threads that have looked up queue q or will look it up. *)
WorkersOn(q) ==
    {w \in workers : \/ w.queue = q
                     \/ /\ w.thread.pc = "start"
                        /\ w.thread.client_id \in DOMAIN clients
                        /\ clients[w.thread.client_id].audio_queue = q}

(* C1: no stranded chunk: whenever the queue of a registered session holds a
   chunk, a worker of that session is on its way to test the queue again
   (it is about to start, about to test the queue, or in a generation after
   which it tests the queue), so that the chunk is processed without any
   further audio_chunk message. *)
C1_NoStrandedChunk ==
    \A cid \in DOMAIN clients :
        LET q == clients[cid].audio_queue IN
        queues[q] # <<>> =>
            \E w \in WorkersOn(q) : w.thread.pc \in {"start", "check", "generate"}

(* C2: at most one worker: no two generate_video_from_audio invocations are
   in flight for the same session. *)
C2_AtMostOneWorker ==
    \A w1 \in workers, w2 \in workers :
        (/\ w1.thread.client_id = w2.thread.client_id
         /\ w1.thread.pc = "generate"
         /\ w2.thread.pc = "generate") => w1 = w2

(* C2's case: a session whose first worker has exited has a second worker in
   a generation, while a further chunk is already queued behind the flag. *)
C2_Witness ==
    \E w \in workers :
        /\ w.thread.pc = "generate"
        /\ w.chunk = 2
        /\ Len(gens[w.queue]) = 1
        /\ w.thread.client_id \in DOMAIN clients
        /\ clients[w.thread.client_id].processing


(* The chunks of the generations that have returned on queue q, in order. *)
Generated(q) == [i \in 1..Len(gens[q]) |-> gens[q][i].chunk]

(* C3: FIFO per session: for a registered session the chunks are passed to
   generation in their order of arrival with none skipped, and the events of
   the generations that have returned are on the session's connection, one
   per chunk and in that order. *)
C3_FifoDelivery ==
    \A cid \in DOMAIN clients :
        LET q == clients[cid].audio_queue
            c == clients[cid].websocket
        IN  /\ Generated(q) = SubSeq(accepted[q], 1, Len(gens[q]))
            /\ ChunkEvents(sent[c]) =
                   [i \in 1..Len(gens[q]) |-> ChunkEvent(gens[q][i].chunk, gens[q][i].res)]

SameThread(a, b) == a.thread.by = b.thread.by /\ a.thread.n = b.thread.n

(* C4: a failed chunk does not abort the drain: when a worker's generation
   ends in failure while chunks are still queued, the worker goes back to
   the test of its queue. *)
C4_FailureDoesNotAbortDrain ==
    [][\A w \in workers :
          (/\ w.thread.pc = "generate"
           /\ queues[w.queue] # <<>>
           /\ Len(gens'[w.queue]) = Len(gens[w.queue]) + 1
           /\ Last(gens'[w.queue]).res # "ok")
          => \E v \in workers' : SameThread(v, w) /\ v.thread.pc = "check"]_vars

(* C5: for a registered session, once the worker that generated a chunk
   successfully has ended, a video_chunk for that chunk has been written to
   the session's connection and no error for it. *)
C5_VideoChunkDelivered ==
    \A cid \in DOMAIN clients :
        LET q == clients[cid].audio_queue
            c == clients[cid].websocket
        IN  \A i \in 1..Len(gens[q]) :
                (gens[q][i].res = "ok" /\ WorkersOn(q) = {}) =>
                    /\ \E j \in 1..Len(sent[c]) :
                           sent[c][j] = Event("video_chunk", <<gens[q][i].chunk>>, "")
                    /\ \A j \in 1..Len(sent[c]) :
                           ~(sent[c][j].type = "error" /\ sent[c][j].ref = <<gens[q][i].chunk>>)

(* C6: idempotent teardown: cleanup_client for a session that is already
   destroyed changes neither table, releases nothing, sends nothing and
   raises nothing; for a session without a bound avatar it releases nothing,
   sends nothing, raises nothing and removes exactly the session's entry. *)
C6_IdempotentTeardown ==
    [][\A c \in Conns :
          /\ (/\ conn[c].pc \in {"open", "ended"}
              /\ conn'[c].pc # conn[c].pc
              /\ conn[c].client_id \notin DOMAIN clients)
             => /\ conn'[c].pc = "closed"
                /\ conn'[c].how # "error_in_cleanup"
                /\ UNCHANGED <<clients, avatars, released, sent>>
          /\ (/\ conn[c].pc = "cleanup_release"
              /\ conn'[c] # conn[c]
              /\ conn[c].avatar_id = None)
             => /\ conn'[c].pc = "cleanup_delete"
                /\ conn'[c].how # "error_in_cleanup"
                /\ UNCHANGED <<clients, avatars, released, sent>>
          /\ (/\ conn[c].pc = "cleanup_delete"
              /\ conn'[c] # conn[c])
             => /\ conn'[c].pc = "closed"
                /\ conn'[c].how # "error_in_cleanup"
                /\ clients' = Del(clients, conn[c].client_id)
                /\ UNCHANGED <<avatars, released, sent>>]_vars

(* C6's cases: one connection was torn down without ever having an avatar
   bound, and another whose session shared its id found it already
   destroyed. *)
C6_Witness ==
    \E c \in Conns, d \in Conns :
        /\ c # d
        /\ conn[c].pc = "closed" /\ conn[c].found
        /\ conn[d].pc = "closed" /\ ~conn[d].found
        /\ conn[c].client_id = conn[d].client_id
        /\ released = {}

(* C7: every way the handler of a connection ends enters cleanup_client, and
   when cleanup_client returns the session id is not in the client table. *)
C7_TeardownOnEveryEnd ==
    [][\A c \in Conns :
          /\ (conn[c].pc \in {"open", "ended"} /\ conn'[c].pc # conn[c].pc)
             => conn'[c].pc \in {"cleanup_release", "closed"}
          /\ (conn[c].pc # "closed" /\ conn'[c].pc = "closed")
             => conn[c].client_id \notin DOMAIN clients']_vars

(* C7's case: one handler ended because connection_established could not be
   sent, another because its read loop ended, and both were torn down. *)
C7_Witness ==
    \E c \in Conns, d \in Conns :
        /\ conn[c].pc = "closed" /\ conn[c].how = "establish_failed" /\ conn[c].found
        /\ conn[d].pc = "closed" /\ conn[d].how = "read_loop_ended" /\ conn[d].found

(* C8: no avatar leak: the avatar table holds no avatar of a session that is
   gone from the client table and has no initialization thread running (an
   avatar in the table has not been released). *)
C8_NoAvatarLeak ==
    \A a \in DOMAIN avatars :
        \/ a[1] \in DOMAIN clients
        \/ \E t \in inits : t.thread.client_id = a[1]

(* C9: release before removal: at the step that removes a session's entry
   from the client table, the avatar bound to the session is no longer in the
   avatar table. *)
C9_ReleaseBeforeRemoval ==
    [][\A cid \in DOMAIN clients :
          cid \notin DOMAIN clients' =>
              \/ clients[cid].avatar_id = None
              \/ clients[cid].avatar_id \notin DOMAIN avatars]_vars

(* C10: at most one avatar per session: the avatar table never holds two
   avatars of the same session. *)
C10_OneAvatarPerSession ==
    \A a \in DOMAIN avatars, b \in DOMAIN avatars : a[1] = b[1] => a = b

(* The session has no successfully initialized avatar bound. *)
NoAvatarBound(cid) ==
    clients[cid].avatar_id = None \/ clients[cid].avatar_id \notin DOMAIN avatars

AudioChunks == {m \in Messages : m.type = "audio_chunk"}

(* C11: an audio_chunk handled on connection c for a session without an
   initialized avatar writes exactly one error event to connection c and
   nothing to any other connection, appends nothing to the queue, leaves the
   busy flag alone and starts no worker. *)
C11_AvatarNotReady ==
    [][\A c \in Conns, m \in AudioChunks :
          (/\ handle_message(c, m)
           /\ conn[c].client_id \in DOMAIN clients
           /\ NoAvatarBound(conn[c].client_id))
          => /\ sent' = [sent EXCEPT ![c] =
                           Append(@, Event("error", <<>>, "Avatar not initialized"))]
             /\ UNCHANGED <<clients, queues, workers, accepted>>]_vars

(* C11 as far as the session's own entry goes: the one error event is
   written to the websocket stored in the session's entry. *)
C11_OnEntryWebsocket ==
    [][\A c \in Conns, m \in AudioChunks :
          (/\ handle_message(c, m)
           /\ conn[c].client_id \in DOMAIN clients
           /\ NoAvatarBound(conn[c].client_id))
          => /\ sent' = [sent EXCEPT ![clients[conn[c].client_id].websocket] =
                           Append(@, Event("error", <<>>, "Avatar not initialized"))]
             /\ UNCHANGED <<clients, queues, workers, accepted>>]_vars

(* The inbound messages that handle_message itself rejects. *)
Undispatched == {m \in Messages : m.type \in {"invalid_json", "unknown"}}

RejectionOf(m) ==
    Event("error", <<>>, IF m.type = "invalid_json" THEN "Invalid JSON message"
                                                    ELSE "Unknown message type")

(* C12: a message that is not valid JSON or has an unknown type, handled on
   connection c, writes exactly one error event to connection c and nothing
   to any other connection, and the read loop of c goes on. *)
C12_RejectedMessage ==
    [][\A c \in Conns, m \in Undispatched :
          handle_message(c, m)
          => /\ sent' = [sent EXCEPT ![c] = Append(@, RejectionOf(m))]
             /\ conn'[c].pc = "open"]_vars

(* C12 as far as the handler's control flow goes: the read loop goes on and
   at most one event is written, an error and to one connection only. *)
C12_ReadLoopContinues ==
    [][\A c \in Conns, m \in Undispatched :
          handle_message(c, m)
          => /\ conn'[c].pc = "open"
             /\ \/ sent' = sent /\ conn[c].client_id \notin DOMAIN clients
                \/ \E d \in Conns : sent' = [sent EXCEPT ![d] = Append(@, RejectionOf(m))]]_vars

(* Handling message m on connection c ends in an error event: the type is
   unknown, the text is not JSON, no video input is given, the session is not
   in the table, no initialized avatar is bound, or audio_data is missing. *)
EndsInError(c, m) ==
    \/ m \in Undispatched
    \/ m.type = "initialize_avatar" /\ m.arg = "none"
    \/ /\ m.type = "audio_chunk"
       /\ \/ conn[c].client_id \notin DOMAIN clients
          \/ NoAvatarBound(conn[c].client_id)
          \/ m.arg = "none"

(* C13: errors are non-fatal and leave the session intact: a message whose
   handling ends in an error event changes nothing but the messages written:
   the client table (entry, bound avatar id, busy flag), the avatar table,
   the queues and the threads are as before and the read loop goes on, so
   that later messages are handled from the same state as without it. *)
C13_ErrorsLeaveSessionIntact ==
    [][\A c \in Conns, m \in Messages :
          (handle_message(c, m) /\ EndsInError(c, m))
          => /\ UNCHANGED <<clients, avatars, queues, inits, workers, released,
                            accepted, gens, clock>>
             /\ conn' = [conn EXCEPT ![c].nmsgs = @ + 1]
             /\ \A d \in Conns : Len(sent'[d]) >= Len(sent[d])]_vars

(* C13's case: a session with an avatar bound got an audio_chunk without
   audio_data rejected and then had a valid audio_chunk accepted, for which a
   worker was started. *)
C13_Witness ==
    \E c \in Conns :
        /\ \E i \in 1..Len(sent[c]), j \in 1..Len(sent[c]) :
              /\ i < j
              /\ sent[c][i] = Event("error", <<>>, "No audio data provided")
              /\ sent[c][j].type = "audio_received"
        /\ conn[c].client_id \in DOMAIN clients
        /\ clients[conn[c].client_id].avatar_id # None
        /\ clients[conn[c].client_id].processing

Failures == {"fail", "raise"}

(* C14: every failure off the event loop is reported exactly once: when an
   avatar initialization fails in its thread, or the generation of a chunk
   fails in the worker, while the session is in the client table, exactly one
   error event is written to the session's connection. *)
C14_FailureReportedOnce ==
    [][/\ \A t \in inits, o \in Failures :
             (prepare_done(t, o) /\ t.thread.client_id \in DOMAIN clients)
             => sent' = send_error(sent, t.thread.client_id, "Failed to initialize avatar")
       /\ \A w \in workers, o \in Failures :
             (generate_done(w, o) /\ w.thread.client_id \in DOMAIN clients)
             => sent' = send_message(sent, w.thread.client_id, ChunkEvent(w.chunk, o))]_vars

(* C15: once a successfully prepared avatar is bound to a registered session,
   the session's connection has been sent avatar_initialization_started and,
   after it, avatar_initialized, both with the id that is bound. *)
C15_StartedThenInitialized ==
    \A cid \in DOMAIN clients :
        LET aid == clients[cid].avatar_id
            s == sent[clients[cid].websocket]
        IN  aid # None =>
                \E i \in 1..Len(s), j \in 1..Len(s) :
                    /\ i < j
                    /\ s[i] = Event("avatar_initialization_started", aid, "")
                    /\ s[j] = Event("avatar_initialized", aid, "")

(* C16: when an avatar preparation fails, the avatar table and the session's
   bound avatar id stay as they were, the thread ends without another
   preparation being started, and an error event is written to the session's
   connection. *)
C16_FailedPreparation ==
    [][\A t \in inits, o \in Failures :
          prepare_done(t, o)
          => /\ UNCHANGED <<avatars, clients>>
             /\ inits' = inits \ {t}
             /\ t.thread.client_id \in DOMAIN clients
                => sent' = send_error(sent, t.thread.client_id, "Failed to initialize avatar")]_vars

(* C16 without the report: a failed preparation adds no avatar, rebinds
   nothing and ends its thread without starting another preparation. *)
C16_FailedPreparationLeavesTables ==
    [][\A t \in inits, o \in Failures :
          prepare_done(t, o)
          => /\ UNCHANGED <<avatars, clients>>
             /\ inits' = inits \ {t}]_vars

(* C17: session ids are unique: any two connections that register_client has
   accepted have different session ids. *)
C17_UniqueSessionIds ==
    \A c \in Conns, d \in Conns :
        (c # d /\ conn[c].pc # "new" /\ conn[d].pc # "new")
        => conn[c].client_id # conn[d].client_id

(* The session of thread record w is gone from the client table. *)
SessionGone(w) == w.thread.client_id \notin DOMAIN clients

(* C18: destroying a session does not interrupt a generation in flight: a
   worker inside generate_video_from_audio stays there over every step of
   the teardown, until its own invocation returns; when it returns with the
   session destroyed, the result is written to no connection, no session
   entry is changed and the worker goes to its finally clause, where it
   ends without touching any table or connection. *)
C18_GenerationOutlivesSession ==
    [][\A w \in workers :
          /\ w.thread.pc = "generate"
             => \/ w \in workers'
                \/ /\ Len(gens'[w.queue]) = Len(gens[w.queue]) + 1
                   /\ Last(gens'[w.queue]).chunk = w.chunk
                   /\ \E v \in workers' : SameThread(v, w) /\ v.thread.pc \in {"check", "finally"}
                   /\ SessionGone(w)
                      => /\ UNCHANGED <<sent, clients, avatars, conn>>
                         /\ \E v \in workers' : SameThread(v, w) /\ v.thread.pc = "finally"
          /\ (w.thread.pc = "finally" /\ SessionGone(w))
             => \/ w \in workers'
                \/ /\ workers' = workers \ {w}
                   /\ UNCHANGED <<sent, clients, avatars, conn>>]_vars

(* C18's case: a session was torn down, its entry removed and its connection
   closed, while its worker is still inside the generation of a chunk. *)
C18_Witness ==
    \E w \in workers, c \in Conns :
        /\ w.thread.pc = "generate"
        /\ SessionGone(w)
        /\ w.thread.by = c
        /\ conn[c].pc = "closed" /\ conn[c].found

Results == {"ok", "fail", "raise"}

(* C19: the event a worker produces for a chunk is written to no connection
   but the one of the worker's session, and the attempt to deliver it raises
   nothing, whether the session's connection is still there or gone: the
   worker goes back to the test of its queue. *)
C19_DeliveryOnlyToOwner ==
    [][\A w \in workers, res \in Results :
          generate_done(w, res)
          => /\ \A d \in Conns : d # w.thread.by => sent'[d] = sent[d]
             /\ SessionGone(w) => sent' = sent
             /\ \E v \in workers' : SameThread(v, w) /\ v.thread.pc = "check"]_vars

(* C19 without the part on raising: no chunk event is ever written to a
   connection other than the one of the worker's session. *)
C19_NothingToOthers ==
    [][\A w \in workers, res \in Results :
          generate_done(w, res)
          => /\ \A d \in Conns : d # w.thread.by => sent'[d] = sent[d]
             /\ SessionGone(w) => sent' = sent]_vars

(* A thread of another session than cid has a preparation or a generation in
   progress. *)
OtherSessionBusy(cid) ==
    \/ \E t \in inits : t.thread.pc = "prepare" /\ t.thread.client_id # cid
    \/ \E w \in workers : w.thread.pc = "generate" /\ w.thread.client_id # cid

(* What belongs to the sessions other than cid is the same after the step:
   their entries, their queues, their avatars, their connections. *)
OthersUntouched(cid) ==
    /\ \A b \in DOMAIN clients : b # cid =>
          /\ b \in DOMAIN clients' /\ clients'[b] = clients[b]
          /\ queues'[clients[b].audio_queue] = queues[clients[b].audio_queue]
    /\ \A a \in DOMAIN avatars : a[1] # cid =>
          a \in DOMAIN avatars' /\ avatars'[a] = avatars[a]
    /\ \A d \in Conns : conn[d].client_id # cid =>
          conn'[d] = conn[d] /\ sent'[d] = sent[d]

(* C20: isolation across sessions: while another session has a preparation
   or a generation in progress, every message of an open connection can be
   handled at once (no teardown being in the middle of its statements and
   the input budget not used up); and the failure of a preparation or of a
   generation of one session, with the exit of its thread, changes nothing
   that belongs to another session. *)
C20_Isolation ==
    /\ [](\A b \in Conns, m \in Messages :
            (/\ conn[b].pc = "open"
             /\ OtherSessionBusy(conn[b].client_id)
             /\ \A c \in Conns : conn[c].pc \in {"new", "open", "closed"}
             /\ TotalInputs < MaxInputs)
            => ENABLED handle_message(b, m))
    /\ [][/\ \A t \in inits, o \in Failures :
                prepare_done(t, o) => OthersUntouched(t.thread.client_id)
          /\ \A w \in workers, o \in Failures :
                generate_done(w, o) => OthersUntouched(w.thread.client_id)
          /\ \A w \in workers :
                worker_finally(w) => OthersUntouched(w.thread.client_id)]_vars

(* C20's case: a connection that was accepted after another session's
   preparation had begun has had a message handled while that preparation is
   still going on. *)
C20_Witness ==
    \E t \in inits, b \in Conns :
        /\ t.thread.pc = "prepare"
        /\ conn[b].pc = "open"
        /\ conn[b].client_id # t.thread.client_id
        /\ conn[b].client_id > t.t0
        /\ conn[b].nmsgs >= 1

(* The step completes a blocking avatar operation: a preparation has put a
   wrapper into the avatar table, or a generation has returned. *)
BlockingOperationCompletes ==
    \/ \E a \in DOMAIN avatars' : a \notin DOMAIN avatars \/ avatars'[a] # avatars[a]
    \/ \E q \in Conns : Len(gens'[q]) > Len(gens[q])

(* C21: the event loop never executes a blocking avatar operation: every
   step that completes a preparation or a generation is the step of a thread
   that was inside that operation, and no coroutine of the event loop
   (register_client, handle_message, cleanup_client) moves in it. *)
C21_BlockingOnlyInThreads ==
    [][BlockingOperationCompletes
       => /\ conn' = conn
          /\ \/ \E t \in inits : t.thread.pc = "prepare" /\ prepare_done(t, "ok")
             \/ \E w \in workers, res \in Results :
                   w.thread.pc = "generate" /\ generate_done(w, res)]_vars

(* C21's case: a preparation and a generation have both been completed while
   the connection that asked for them has its read loop open. *)
C21_Witness ==
    \E c \in Conns :
        /\ conn[c].pc = "open"
        /\ gens[c] # <<>>
        /\ \E a \in DOMAIN avatars : a[1] = conn[c].client_id

(* C22: cross-context delivery: whenever a thread originates an event (the
   initialization thread its avatar_initialized or its error, the worker the
   event of a chunk), the hand-off to the event loop succeeds, so that the
   thread goes on normally and the event is written to the connection of the
   session as far as the session is still in the table. *)
C22_HandOffSucceeds ==
    [][/\ \A t \in inits :
             bind_avatar(t) /\ ~SessionGone(t)
             => sent' = send_message(sent, t.thread.client_id,
                            Event("avatar_initialized", t.thread.avatar_id, ""))
       /\ \A t \in inits, o \in Failures :
             prepare_done(t, o)
             => sent' = send_error(sent, t.thread.client_id, "Failed to initialize avatar")
       /\ \A w \in workers, res \in Results :
             generate_done(w, res)
             => /\ sent' = send_message(sent, w.thread.client_id, ChunkEvent(w.chunk, res))
                /\ \E v \in workers' : SameThread(v, w) /\ v.thread.pc = "check"]_vars

StatusQueries == {m \in Messages : m.type = "get_status"}

(* The chunks of queue q that a worker has taken out of it: those whose
   generation has returned and those whose generation is in flight. *)
Dequeued(q) ==
    Len(gens[q]) + Cardinality({w \in workers : w.thread.pc = "generate" /\ w.queue = q})

(* C23: a get_status handled for a registered session writes one status
   event that carries the session's id, an avatar flag that is true exactly
   when an initialized avatar is bound, the number of chunks put into the
   session's queue and not yet taken out by a worker, and the busy flag as it
   is; and while a worker of the session is draining its queue the status
   says processing = TRUE. *)
C23_StatusReflectsState ==
    [][\A c \in Conns, m \in StatusQueries :
          (handle_message(c, m) /\ conn[c].client_id \in DOMAIN clients)
          => LET cid == conn[c].client_id
                 entry == clients[cid]
                 q == entry.audio_queue
                 ws == entry.websocket
                 st == Last(sent'[ws])
             IN  /\ Len(sent'[ws]) = Len(sent[ws]) + 1
                 /\ st.type = "status"
                 /\ st.ref = <<cid>>
                 /\ st.avatar_initialized = ~NoAvatarBound(cid)
                 /\ st.queue_size = Len(accepted[q]) - Dequeued(q)
                 /\ st.processing = entry.processing
                 /\ (\E w \in WorkersOn(q) : w.thread.pc \in {"start", "check", "generate"})
                    => st.processing]_vars

(* C23's case: a status was reported for a ready session while its worker
   had taken the one chunk put so far: busy, with an empty queue. *)
C23_Witness ==
    \E c \in Conns : \E i \in 1..Len(sent[c]) :
        /\ sent[c][i].type = "status"
        /\ sent[c][i].processing
        /\ sent[c][i].avatar_initialized
        /\ sent[c][i].queue_size = 0
        /\ Len(accepted[c]) = 1

(* The versions the wrapper has model paths for. *)
SupportedVersions == {"v15", "v1"}

Initializations == {m \in Messages : m.type = "initialize_avatar"}

(* C24: an initialize_avatar whose version is not one of the supported
   values is rejected: one error event is written, no initialization thread
   is started and nothing else changes. *)
C24_VersionRestricted ==
    [][\A c \in Conns, m \in Initializations :
          (handle_message(c, m) /\ m.version \notin SupportedVersions)
          => /\ inits' = inits
             /\ UNCHANGED <<clients, avatars>>
             /\ conn[c].client_id \in DOMAIN clients
                => \E d \in Conns : /\ Len(sent'[d]) = Len(sent[d]) + 1
                                    /\ Last(sent'[d]).type = "error"]_vars

(* C25: an initialize_avatar that carries neither video field, or both, is
   rejected: one error event is written, no avatar_initialization_started is
   sent, no initialization thread is started and nothing else changes. *)
C25_ExactlyOneVideoField ==
    [][\A c \in Conns, m \in Initializations :
          (handle_message(c, m) /\ m.arg \in {"none", "both"})
          => /\ inits' = inits
             /\ UNCHANGED <<clients, avatars>>
             /\ sent' = send_error(sent, conn[c].client_id,
                           "Either avatar_video_data or avatar_video_path must be provided")]_vars

(* C25 for a message with neither field. *)
C25_NeitherFieldRejected ==
    [][\A c \in Conns, m \in Initializations :
          (handle_message(c, m) /\ m.arg = "none")
          => /\ inits' = inits
             /\ UNCHANGED <<clients, avatars>>
             /\ sent' = send_error(sent, conn[c].client_id,
                           "Either avatar_video_data or avatar_video_path must be provided")]_vars

(* C26: on every connection the first message written is
   connection_established with the id the connection's session was
   registered under; nothing is dispatched or written on a connection
   before that; and the step that accepts a connection stores the session's
   entry, with this connection's websocket, under that id. *)
C26_EstablishedFirst ==
    /\ [](\A c \in Conns :
            (conn[c].nmsgs > 0 \/ sent[c] # <<>>)
            => /\ conn[c].pc # "new"
               /\ sent[c] # <<>>
               /\ sent[c][1] = Event("connection_established", <<conn[c].client_id>>, ""))
    /\ [][\A c \in Conns :
            (conn[c].pc = "new" /\ conn'[c].pc # "new")
            => /\ conn'[c].client_id \in DOMAIN clients'
               /\ clients'[conn'[c].client_id].websocket = c
               /\ conn'[c].nmsgs = 0]_vars

(* C26's case: a connection was greeted and has had messages dispatched and
   answered since. *)
C26_Witness ==
    \E c \in Conns :
        /\ conn[c].nmsgs >= 2
        /\ Len(sent[c]) >= 3
        /\ sent[c][1].type = "connection_established"

(* C27: generation is never invoked on an avatar whose preparation has not
   succeeded: avatar_prepared was true at every call of
   generate_video_from_audio. *)
C27_GenerateOnlyPrepared ==
    \A w \in Wrappers : FALSE \notin wrappers[w].gen_calls

(* C28: preparation is idempotent: a call of prepare_avatar_realtime on a
   wrapper that has returned success before returns True and changes
   nothing of the wrapper (the preparation is not gone into again); a call
   on a wrapper whose preparation has not succeeded goes into the
   preparation again. *)
C28_PrepareIdempotent ==
    [][\A w \in Wrappers :
          wrappers'[w].calls = wrappers[w].calls + 1
          => IF wrappers[w].avatar_prepared
             THEN wrappers'[w] = [wrappers[w] EXCEPT !.calls = @ + 1, !.ret = "True"]
             ELSE /\ wrappers'[w].attempts = wrappers[w].attempts + 1
                  /\ wrappers'[w].ret = IF wrappers'[w].avatar_prepared
                                        THEN "True" ELSE "False"]_vars

(* C28's case: a preparation failed, the next call ran it again and
   succeeded, and a third call returned success without running it. *)
C28_Witness ==
    \E w \in Wrappers :
        /\ wrappers[w].calls = 3
        /\ wrappers[w].attempts = 2
        /\ wrappers[w].avatar_prepared
        /\ wrappers[w].ret = "True"

(* C29: release is idempotent and safe: a call of cleanup(), by the user or
   by the destructor, raises nothing and leaves the temporary directory
   removed; on a wrapper whose directory is already removed it changes no
   attribute. *)
C29_CleanupIdempotent ==
    [][\A w \in Wrappers :
          (\/ wrappers'[w].cleanups = wrappers[w].cleanups + 1
           \/ wrappers[w].life # "none" /\ wrappers'[w].life = "dead" /\ wrappers[w].life # "dead")
          => LET x == wrappers[w]
                 y == wrappers'[w]
             IN  /\ ~y.raised
                 /\ ~y.temp_dir
                 /\ [y EXCEPT !.cleanups = 0, !.life = "", !.temp_dir = FALSE]
                      = [x EXCEPT !.cleanups = 0, !.life = "", !.temp_dir = FALSE]]_vars

(* C29's case: cleanup() was called twice on a wrapper and then once more by
   its destructor. *)
C29_Witness ==
    \E w \in Wrappers :
        /\ wrappers[w].cleanups = 2
        /\ wrappers[w].life = "dead"
        /\ ~wrappers[w].temp_dir
        /\ ~wrappers[w].raised

(* C30: an avatar is operated on only by the one worker that is generating
   on it: no two workers are inside generate_video_from_audio on the same
   wrapper, and while a worker's generation on a wrapper is in flight no
   step calls cleanup() on that wrapper. *)
C30_AvatarOnlyByItsWorker ==
    /\ [](\A w1 \in workers, w2 \in workers :
            (/\ w1.thread.pc = "generate" /\ w2.thread.pc = "generate"
             /\ w1.wrapper = w2.wrapper) => w1 = w2)
    /\ [][\A w \in workers :
            (w.thread.pc = "generate" /\ w \in workers')
            => (w.wrapper \in released' => w.wrapper \in released)]_vars

(* C30 for generation alone: no two workers are inside
   generate_video_from_audio on the same wrapper. *)
C30_OneGenerationPerAvatar ==
    \A w1 \in workers, w2 \in workers :
        (/\ w1.thread.pc = "generate" /\ w2.thread.pc = "generate"
         /\ w1.wrapper = w2.wrapper) => w1 = w2


(* What an HTTP request that is rejected as unknown leaves behind: the
   answer 404, and the avatar table, the generations and the cleanups as
   they were. *)
AnsweredNotFound ==
    /\ api'.resp.code = 404
    /\ api'.avatars = api.avatars
    /\ api'.generated = api.generated
    /\ api'.cleaned = api.cleaned
    /\ api'.reqs = api.reqs

(* C31: a generate_video (with an audio file) or delete_avatar request is
   accepted, i.e. taken on for generation or cleanup, exactly when the last
   initialize_avatar answered 200 for its avatar_id has not been followed by
   a delete_avatar answered 200; for any other id the answer is 404, nothing
   is generated or cleaned up and the avatar table is unchanged. *)
C31_AcceptedIffLive ==
    [][/\ \A id \in ApiIds :
            generate_video(id, TRUE) =>
                IF id \in api.live
                THEN \E r \in api'.reqs \ api.reqs :
                        r.route = "generate_video" /\ r.id = id
                ELSE AnsweredNotFound
       /\ \A id \in ApiIds :
            delete_avatar(id) =>
                IF id \in api.live
                THEN \E r \in api'.reqs \ api.reqs :
                        r.route = "delete_avatar" /\ r.id = id
                ELSE AnsweredNotFound]_vars

(* An avatar initialized under the empty id is refused by generate_video. *)
C31_EmptyIdRefused ==
    ~(/\ "" \in api.live
      /\ api.resp = Response("generate_video", "", 400))

(* The same for the requests whose avatar_id is not empty: there the
   statement of C31 holds. *)
C31_NonEmptyIds ==
    [][/\ \A id \in ApiIds \ {""} :
            generate_video(id, TRUE) =>
                IF id \in api.live
                THEN \E r \in api'.reqs \ api.reqs :
                        r.route = "generate_video" /\ r.id = id
                ELSE AnsweredNotFound
       /\ \A id \in ApiIds \ {""} :
            delete_avatar(id) =>
                IF id \in api.live
                THEN \E r \in api'.reqs \ api.reqs :
                        r.route = "delete_avatar" /\ r.id = id
                ELSE AnsweredNotFound]_vars

(* The worker thread w ends in this step. *)
ThreadEnds(w) == \A v \in workers' : ~SameThread(w, v)

(* C32: the busy flag of a session is set only while a process_audio_queue
   thread started for that session runs, and a process_audio_queue thread
   that ends, on whichever path, leaves the flag of its session clear if the
   session is registered. *)
C32_NoOrphanedBusyFlag ==
    /\ [](\A cid \in DOMAIN clients :
            clients[cid].processing =>
                \E w \in workers : w.thread.client_id = cid)
    /\ [][\A w \in workers :
            (ThreadEnds(w) /\ w.thread.client_id \in DOMAIN clients')
                => ~clients'[w.thread.client_id].processing]_vars

(* A thread has ended, after a generation that raised, for a session that is
   still registered and has its flag clear. *)
C32_Witness ==
    \E cid \in DOMAIN clients :
        /\ ~clients[cid].processing
        /\ gens[clients[cid].audio_queue] # <<>>
        /\ Last(gens[clients[cid].audio_queue]).res = "raise"
        /\ workers = {}

(***************************************************************************)
(* The server with its worker threads scheduled: a started                 *)
(* process_audio_queue thread is an operating-system thread, so it is      *)
(* given the processor again and again, and a blocking call it has made    *)
(* into generate_video_from_audio returns. A thread is named by the         *)
(* connection and the number of the message that started it.               *)
(***************************************************************************)

ThreadNames == Conns \X (1..MaxInputs)

Running(name) ==
    \E w \in workers : w.thread.by = name[1] /\ w.thread.n = name[2]

WorkerStep(name) ==
    \E w \in workers :
        /\ w.thread.by = name[1] /\ w.thread.n = name[2]
        /\ \/ worker_take(w)
           \/ \E res \in Results : generate_done(w, res)
           \/ worker_finally(w)

FairSpec == Spec /\ \A name \in ThreadNames : WF_vars(WorkerStep(name))

(* C33: with finitely many chunks put into the queues and every generation
   returning, each started process_audio_queue thread ends, and a session of
   which no thread runs has its busy flag clear. *)
C33_WorkersTerminate ==
    /\ \A name \in ThreadNames : Running(name) ~> ~Running(name)
    /\ [](\A cid \in DOMAIN clients :
            (\A w \in workers : w.thread.client_id # cid) => ~clients[cid].processing)

(* A thread has generated a chunk and ended; its session is registered and
   not busy. *)
C33_Witness ==
    \E cid \in DOMAIN clients :
        /\ ~clients[cid].processing
        /\ \E i \in 1..Len(gens[clients[cid].audio_queue]) :
              gens[clients[cid].audio_queue][i].res = "ok"
        /\ \A w \in workers : w.thread.client_id # cid

(* C34: once the entry of a session is gone from the client table, no thread
   of that session enters generate_video_from_audio: a chunk still in the
   queue then is never generated. A thread that is inside a generation at
   that time stays there until its call returns (C18). *)
C34_TeardownDropsQueue ==
    [][\A w \in workers :
          (SessionGone(w) /\ w.thread.pc # "generate")
              => \A v \in workers' :
                    SameThread(w, v) => v.thread.pc # "generate"]_vars

(* The same for a thread that has not yet looked up its wrapper and its
   queue when the entry goes: its lookup raises KeyError and it ends. *)
C34_BeforeLookup ==
    [][\A w \in workers :
          (SessionGone(w) /\ w.thread.pc = "start")
              => \A v \in workers' :
                    SameThread(w, v) => v.thread.pc \in {"start", "finally"}]_vars

(* The audio_received events written so far, on all connections. *)
RECURSIVE AcksUpTo(_, _)
AcksUpTo(s, c) ==
    IF c = 0 THEN 0
    ELSE Len(SelectSeq(s[c], LAMBDA ev : ev.type = "audio_received")) + AcksUpTo(s, c - 1)

Acks(s) == AcksUpTo(s, NumConns)

(* C35: handling an audio_chunk message that puts a chunk into a queue
   writes exactly one audio_received, with the chunk in the queue and no
   generation of it done; handling one that puts no chunk into a queue
   writes no audio_received. *)
C35_AckOfEnqueueing ==
    [][\A c \in Conns, m \in AudioChunks :
          handle_message(c, m) =>
              IF accepted' # accepted
              THEN /\ Acks(sent') = Acks(sent) + 1
                   /\ gens' = gens
                   /\ \E q \in Conns :
                         /\ accepted'[q] # accepted[q]
                         /\ queues'[q] # <<>>
                         /\ Last(queues'[q]) = Last(accepted'[q])
              ELSE Acks(sent') = Acks(sent)]_vars

(* A chunk has been acknowledged and is still in its queue, nothing of the
   queue having been generated. *)
C35_Witness ==
    \E c \in Conns :
        /\ \E i \in 1..Len(sent[c]) : sent[c][i].type = "audio_received"
        /\ queues[c] # <<>>
        /\ gens[c] = <<>>

(* C36: a chunk is generated with the avatar that its session had bound when
   the chunk was put into the queue: a thread that takes a chunk and enters
   generate_video_from_audio holds the wrapper that the session's avatar_id
   named at the put. *)
C36_GeneratedWithBoundAvatar ==
    [][\A w \in workers : \A v \in workers' :
          (SameThread(w, v) /\ w.thread.pc # "generate" /\ v.thread.pc = "generate")
              => v.wrapper = bound[v.queue][v.chunk]]_vars

(* C37: two initialization requests that were accepted have different avatar
   ids, and a successful initialization stores its wrapper under an id that
   is not in the avatar table. *)
C37_UniqueAvatarIds ==
    /\ [](\A t \in inits, u \in inits :
            t.thread.avatar_id = u.thread.avatar_id => SameThread(t, u))
    /\ [][\A t \in inits :
            prepare_done(t, "ok") => t.thread.avatar_id \notin DOMAIN avatars]_vars

(* C38: a get_status handled on connection c changes neither table (so no
   bound avatar id and no busy flag), no queue and no set of threads; all it
   does is write one event, a status or an error, to connection c. *)
C38_StatusReadOnly ==
    [][\A c \in Conns, m \in StatusQueries :
          handle_message(c, m)
          => /\ UNCHANGED <<clients, avatars, queues, workers, inits>>
             /\ \E ev \in {Last(sent'[d]) : d \in {e \in Conns : sent'[e] # <<>>}} :
                   /\ ev.type \in {"status", "error"}
                   /\ sent' = [sent EXCEPT ![c] = Append(@, ev)]]_vars

(* C38 without the recipient: get_status changes neither table, no queue and
   no set of threads, and writes at most one event, a status or an error,
   to one connection. *)
C38_ReadOnly ==
    [][\A c \in Conns, m \in StatusQueries :
          handle_message(c, m)
          => /\ UNCHANGED <<clients, avatars, queues, workers, inits>>
             /\ \/ sent' = sent /\ conn[c].client_id \notin DOMAIN clients
                \/ \E d \in Conns :
                      /\ sent'[d] # <<>>
                      /\ Last(sent'[d]).type = "status"
                      /\ sent' = [sent EXCEPT ![d] = Append(@, Last(sent'[d]))]]_vars

(* The _record_audio threads that have found is_recording set and go on to
   read the stream. *)
Recording == {t \in recorder.threads : t.pc = "read"}

(* C39: at most one _record_audio thread records at any time. *)
C39_OneRecordingThread == Cardinality(Recording) <= 1

(* One start at a time: while is_recording stays set, a second call of
   start_audio_recording starts no thread. *)
C39_StartGuarded ==
    [][\A ok \in BOOLEAN :
          (start_audio_recording(ok) /\ recorder.is_recording)
              => recorder'.threads = recorder.threads]_vars
====
